---- MODULE Spec2Model ----
(***************************************************************************)
(* ApplicationGatewayWafFilter (c7n_azure/resources/app_gateway.py).       *)
(*                                                                         *)
(* The 'waf' filter of the azure.application-gateway resource: its schema  *)
(* and its process() method, which lists the web application firewall      *)
(* policies once and then walks, for every application gateway that        *)
(* references a policy, the nested                                         *)
(*   properties.managedRules.managedRuleSets[].ruleGroupOverrides[].rules[]*)
(* structure of every fetched policy with the referenced id.               *)
(*                                                                         *)
(* Python values are modelled as follows.                                  *)
(*   str   a tuple of one-character strings, <<"4","2">> for "42"          *)
(*   dict  a function whose DOMAIN is the set of keys that are present     *)
(*   list  a sequence                                                      *)
(*   an exception is the name of its class; "None" is no exception         *)
(***************************************************************************)
EXTENDS Integers, Sequences, FiniteSets, TLC

VARIABLES
    data,           \* self.data, the filter's configuration
    resources,      \* the resources handed to process()
    backend,        \* what web_application_firewall_policies.list_all() will do
    pc,             \* where the run is
    app_gate_wafs,  \* the fetched firewall policies
    result,         \* the local list process() builds
    idx,            \* how many resources the outer loop has finished
    list_all_calls, \* how often list_all() was invoked
    raised,         \* the exception that ended the run, or "None"
    returned        \* <<>> while nothing is returned, <<value>> once returned

vars == <<data, resources, backend, pc, app_gate_wafs, result, idx,
          list_all_calls, raised, returned>>

----------------------------------------------------------------------------
(* Bounds of the input universe.                                           *)

MaxResources == 3   \* resources in one batch
MaxPolicies == 2    \* policies list_all() returns in the batch inputs
MaxNodes == 6       \* rule sets + groups + rules of one generated policy
MaxIdLen == 2       \* characters of a generated ruleId

----------------------------------------------------------------------------
(* dict and str primitives                                                 *)

Has(d, k) == k \in DOMAIN d

UpperChars == <<"A","B","C","D","E","F","G","H","I","J","K","L","M",
                "N","O","P","Q","R","S","T","U","V","W","X","Y","Z">>
LowerChars == <<"a","b","c","d","e","f","g","h","i","j","k","l","m",
                "n","o","p","q","r","s","t","u","v","w","x","y","z">>

lower_char(c) ==
    IF \E k \in 1..Len(UpperChars) : UpperChars[k] = c
    THEN LowerChars[CHOOSE k \in 1..Len(UpperChars) : UpperChars[k] = c]
    ELSE c

\* str.lower()
lower(s) == [k \in 1..Len(s) |-> lower_char(s[k])]

DigitChars == <<"0","1","2","3","4","5","6","7","8","9">>

IsDigit(c) == \E d \in 1..Len(DigitChars) : DigitChars[d] = c

DigitValue(c) == (CHOOSE d \in 1..Len(DigitChars) : DigitChars[d] = c) - 1

IsSpace(c) == c = " "

RECURSIVE lstrip(_)
lstrip(s) == IF s /= <<>> /\ IsSpace(Head(s)) THEN lstrip(Tail(s)) ELSE s

RECURSIVE rstrip(_)
rstrip(s) ==
    IF s /= <<>> /\ IsSpace(s[Len(s)]) THEN rstrip(SubSeq(s, 1, Len(s) - 1)) ELSE s

strip(s) == rstrip(lstrip(s))

unsigned(s) == IF s /= <<>> /\ Head(s) \in {"+", "-"} THEN Tail(s) ELSE s

\* int(str) succeeds: optional blanks, an optional sign, then decimal digits
\* that single underscores may separate.  Otherwise it raises ValueError.
int_valid(s) ==
    LET b == unsigned(strip(s)) IN
        /\ b /= <<>>
        /\ IsDigit(b[1])
        /\ IsDigit(b[Len(b)])
        /\ \A k \in 1..Len(b) :
              \/ IsDigit(b[k])
              \/ b[k] = "_" /\ IsDigit(b[k - 1]) /\ IsDigit(b[k + 1])

RECURSIVE digits_value(_, _)
digits_value(b, acc) ==
    IF b = <<>> THEN acc
    ELSE IF Head(b) = "_" THEN digits_value(Tail(b), acc)
    ELSE digits_value(Tail(b), 10 * acc + DigitValue(Head(b)))

\* int(str), for a str that int_valid accepts
int(s) ==
    LET t == strip(s)
        n == digits_value(unsigned(t), 0)
    IN  IF Head(t) = "-" THEN 0 - n ELSE n

----------------------------------------------------------------------------
(* The strings the source and its inputs name.                             *)

s_disabled == <<"d","i","s","a","b","l","e","d">>
s_Disabled == <<"D","i","s","a","b","l","e","d">>
s_DISABLED == <<"D","I","S","A","B","L","E","D">>
s_enabled == <<"e","n","a","b","l","e","d">>
s_Enabled == <<"E","n","a","b","l","e","d">>
s_944240 == <<"9","4","4","2","4","0">>

----------------------------------------------------------------------------
(* schema = type_schema('waf', required=[...], override_rule=..., state=..)*)

\* a schema without 'required' and with both rule states in the enum
schema_lax ==
    [required |-> {"type"},
     state_enum |-> {s_disabled, s_enabled, s_Disabled}]

schema ==
    [required |-> {"type", "override_rule", "state"},
     state_enum |-> {s_disabled}]

\* The host validates self.data against the schema before the policy runs:
\* the required keys are there, and a key that is there has a valid value.
validate(d) ==
    /\ schema.required \subseteq DOMAIN d
    /\ Has(d, "override_rule") => d.override_rule \in Int
    /\ Has(d, "state") => d.state \in schema.state_enum

----------------------------------------------------------------------------
(* process(), the body of the loops, innermost first.  Every step takes    *)
(* and gives back acc = [result, exc]: the list built so far and the       *)
(* exception raised, "None" while there is none.                           *)

raise(acc, e) == [acc EXCEPT !.exc = e]

\* result.insert(0, resource)
append_front(res, resource) == <<resource>> \o res

\* result.append(resource)
append(res, resource) == Append(res, resource)

\* the states compared as they are, without lower()
rule_step_exact_state(rule, resource, d, acc) ==
    IF ~Has(rule, "ruleId") THEN raise(acc, "TypeError")
    ELSE IF ~int_valid(rule.ruleId) THEN raise(acc, "ValueError")
    ELSE IF ~(Has(d, "override_rule") /\ d.override_rule = int(rule.ruleId)) THEN acc
    ELSE IF ~Has(d, "state") THEN raise(acc, "AttributeError")
    ELSE IF ~Has(rule, "state") THEN raise(acc, "AttributeError")
    ELSE IF d.state = rule.state
         THEN [acc EXCEPT !.result = append(@, resource)]
    ELSE acc

\* if filter_override_rule == int(rule.get('ruleId')) \
\*         and filter_state.lower() == rule.get('state').lower():
\*     result.append(resource)
rule_step(rule, resource, d, acc) ==
    IF ~Has(rule, "ruleId") THEN raise(acc, "TypeError")            \* int(None)
    ELSE IF ~int_valid(rule.ruleId) THEN raise(acc, "ValueError")
    ELSE IF ~(Has(d, "override_rule") /\ d.override_rule = int(rule.ruleId))
         THEN acc                                                    \* 'and' stops here
    ELSE IF ~Has(d, "state") THEN raise(acc, "AttributeError")       \* None.lower()
    ELSE IF ~Has(rule, "state") THEN raise(acc, "AttributeError")    \* None.lower()
    ELSE IF lower(d.state) = lower(rule.state)
         THEN [acc EXCEPT !.result = append(@, resource)]
    ELSE acc

\* for rule in group.get('rules'):
RECURSIVE rules_loop(_, _, _, _, _)
rules_loop(rules, k, resource, d, acc) ==
    IF acc.exc /= "None" \/ k > Len(rules) THEN acc
    ELSE rules_loop(rules, k + 1, resource, d, rule_step(rules[k], resource, d, acc))

group_step(group, resource, d, acc) ==
    IF ~Has(group, "rules") THEN raise(acc, "TypeError")             \* for .. in None
    ELSE rules_loop(group.rules, 1, resource, d, acc)

\* for group in rule_set.get('ruleGroupOverrides'):
RECURSIVE groups_loop(_, _, _, _, _)
groups_loop(groups, k, resource, d, acc) ==
    IF acc.exc /= "None" \/ k > Len(groups) THEN acc
    ELSE groups_loop(groups, k + 1, resource, d, group_step(groups[k], resource, d, acc))

rule_set_step(rule_set, resource, d, acc) ==
    IF ~Has(rule_set, "ruleGroupOverrides") THEN raise(acc, "TypeError")
    ELSE groups_loop(rule_set.ruleGroupOverrides, 1, resource, d, acc)

\* only managedRuleSets[0] is looked at
rule_sets_loop_first(rule_sets, k, resource, d, acc) ==
    IF rule_sets = <<>> THEN acc ELSE rule_set_step(rule_sets[1], resource, d, acc)

\* for rule_set in app_gate_waf.get('managedRules').get('managedRuleSets'):
RECURSIVE rule_sets_loop(_, _, _, _, _)
rule_sets_loop(rule_sets, k, resource, d, acc) ==
    IF acc.exc /= "None" \/ k > Len(rule_sets) THEN acc
    ELSE rule_sets_loop(rule_sets, k + 1, resource, d,
                        rule_set_step(rule_sets[k], resource, d, acc))

\* app_gate_waf.serialize(True).get('properties', {})
properties_of(serialized) ==
    IF Has(serialized, "properties") THEN serialized.properties ELSE <<>>

\* the ids compared ignoring letter case
id_differs_nocase(waf_id, waf_policy_name) == lower(waf_id) /= lower(waf_policy_name)

\* if app_gate_waf.id != waf_policy_name: continue
id_differs(waf_id, waf_policy_name) == waf_id /= waf_policy_name

\* the body of 'for app_gate_waf in app_gate_wafs'
waf_step(app_gate_waf, resource, d, acc) ==
    IF id_differs(app_gate_waf.id, resource.properties.firewallPolicy.id) THEN acc
    ELSE LET props == properties_of(app_gate_waf.serialized) IN
         IF ~Has(props, "managedRules") THEN raise(acc, "AttributeError")  \* None.get
         ELSE IF ~Has(props.managedRules, "managedRuleSets")
              THEN raise(acc, "TypeError")                                 \* for .. in None
         ELSE rule_sets_loop(props.managedRules.managedRuleSets, 1, resource, d, acc)

RECURSIVE wafs_loop(_, _, _, _, _)
wafs_loop(wafs, k, resource, d, acc) ==
    IF acc.exc /= "None" \/ k > Len(wafs) THEN acc
    ELSE wafs_loop(wafs, k + 1, resource, d, waf_step(wafs[k], resource, d, acc))

\* a gateway without a firewall policy taken as one that has the rule off
resource_step_keep_unprotected(resource, wafs, d, acc) ==
    IF ~Has(resource.properties, "firewallPolicy")
    THEN [acc EXCEPT !.result = append(@, resource)]
    ELSE wafs_loop(wafs, 1, resource, d, acc)

\* the body of 'for resource in resources'
resource_step(resource, wafs, d, acc) ==
    IF ~Has(resource.properties, "firewallPolicy") THEN acc          \* continue
    ELSE wafs_loop(wafs, 1, resource, d, acc)

----------------------------------------------------------------------------
(* The inputs of one run.  Application gateways as the resource manager    *)
(* serializes them, firewall policies as list_all() yields them:           *)
(* [id, serialized], serialized being what serialize(True) gives.          *)

id_w1 == <<"w","1">>
id_W1 == <<"W","1">>

gateway(name, props) == [id |-> name, properties |-> props]

gw_A == gateway("A", [provisioningState |-> "Succeeded"])
gw_B == gateway("B", [provisioningState |-> "Succeeded", firewallPolicy |-> [id |-> id_w1]])
gw_C == gateway("C", [provisioningState |-> "Succeeded", firewallPolicy |-> [id |-> id_W1]])
gw_D == gateway("D", [provisioningState |-> "Succeeded", firewallPolicy |-> [id |-> id_w1]])

Gateways == {gw_A, gw_B, gw_C, gw_D}

\* lists of at most n distinct elements of S
RECURSIVE DistinctSeqs(_, _)
DistinctSeqs(S, n) ==
    IF n = 0 THEN {<<>>}
    ELSE LET shorter == DistinctSeqs(S, n - 1) IN
         shorter \cup {Append(q, x) : <<q, x>> \in
                          {<<q, x>> \in shorter \X S : \A k \in 1..Len(q) : q[k] /= x}}

\* lists of at most n elements of S
RECURSIVE SeqsUpTo(_, _)
SeqsUpTo(S, n) ==
    IF n = 0 THEN {<<>>}
    ELSE LET shorter == SeqsUpTo(S, n - 1) IN
         shorter \cup {Append(q, x) : <<q, x>> \in shorter \X S}

override_rule_of(ruleId, state) == [ruleId |-> ruleId, state |-> state]

rule_set_of(groups) ==
    [ruleSetType |-> "OWASP", ruleSetVersion |-> "3.2", ruleGroupOverrides |-> groups]

group_of(rules) == [ruleGroupName |-> "REQUEST-944", rules |-> rules]

serialized_of(id, rule_sets) ==
    [id |-> id, properties |-> [managedRules |-> [managedRuleSets |-> rule_sets]]]

\* a policy is grown one node at a time, each node going to the end of the
\* policy: a rule set (with or without ruleGroupOverrides), a group in the
\* last rule set (with or without rules), a rule in the last group
NodeRules == {override_rule_of(s_944240, s_disabled), override_rule_of(s_944240, s_enabled)}

last_set(sets) == sets[Len(sets)]

last_group(sets) == last_set(sets).ruleGroupOverrides[Len(last_set(sets).ruleGroupOverrides)]

can_add_group(sets) == sets /= <<>> /\ Has(last_set(sets), "ruleGroupOverrides")

can_add_rule(sets) ==
    /\ can_add_group(sets)
    /\ last_set(sets).ruleGroupOverrides /= <<>>
    /\ Has(last_group(sets), "rules")

add_group(sets, group) ==
    [sets EXCEPT ![Len(sets)].ruleGroupOverrides = Append(@, group)]

add_rule(sets, rule) ==
    [sets EXCEPT ![Len(sets)].ruleGroupOverrides =
        [@ EXCEPT ![Len(@)].rules = Append(@, rule)]]

grow(sets) ==
    {Append(sets, rule_set_of(<<>>)),
     Append(sets, [ruleSetType |-> "OWASP", ruleSetVersion |-> "3.2"])}
    \cup (IF can_add_group(sets)
          THEN {add_group(sets, group_of(<<>>)),
                add_group(sets, [ruleGroupName |-> "REQUEST-944"])}
          ELSE {})
    \cup (IF can_add_rule(sets) THEN {add_rule(sets, r) : r \in NodeRules} ELSE {})

RECURSIVE RuleSetLists(_)
RuleSetLists(n) ==
    IF n = 0 THEN {<<>>}
    ELSE LET smaller == RuleSetLists(n - 1) IN
         smaller \cup UNION {grow(sets) : sets \in smaller}

\* what serialize(True) gives for a policy that lacks a level altogether
GapSerialized(id) ==
    {[id |-> id],
     [id |-> id, properties |-> [provisioningState |-> "Succeeded"]],
     [id |-> id, properties |-> [managedRules |-> [exclusions |-> <<>>]]]}

waf_policy(id, serialized) == [id |-> id, serialized |-> serialized]

\* filter configurations: the documented one, and ones the schema rejects
data_of(n, state) == [type |-> "waf", override_rule |-> n, state |-> state]

InvalidDatas ==
    {[type |-> "waf", state |-> s_disabled],
     [type |-> "waf", override_rule |-> 944240],
     data_of(944240, s_enabled),
     data_of(944240, s_Disabled)}

list_all_of(fails, policies) == [fails |-> fails, policies |-> policies]

\* batches of gateways against lists of small policies
BatchPolicies ==
    {waf_policy(id, ser) : <<id, ser>> \in
        UNION {{id} \X ({serialized_of(id, <<rule_set_of(<<group_of(<<r>>)>>)>>) : r \in NodeRules}
                        \cup {serialized_of(id, <<[ruleSetType |-> "OWASP",
                                                  ruleSetVersion |-> "3.2"]>>)})
               : id \in {id_w1, id_W1}}}

BatchInputs ==
    /\ data = data_of(944240, s_disabled)
    /\ resources \in DistinctSeqs(Gateways, MaxResources)
    /\ backend \in {list_all_of(FALSE, ps) : ps \in SeqsUpTo(BatchPolicies, MaxPolicies)}

\* batches for which list_all() fails
FailingInputs ==
    /\ data = data_of(944240, s_disabled)
    /\ resources \in DistinctSeqs(Gateways, MaxResources)
    /\ backend = list_all_of(TRUE, <<>>)

\* batches under a filter the schema rejects
InvalidInputs ==
    /\ data \in InvalidDatas
    /\ resources \in DistinctSeqs(Gateways, MaxResources)
    /\ backend \in {list_all_of(FALSE, ps) : ps \in SeqsUpTo(BatchPolicies, 1)}

\* one gateway against one policy of any shape
ShapeInputs ==
    /\ data = data_of(944240, s_disabled)
    /\ resources = <<gw_B>>
    /\ backend \in {list_all_of(FALSE, <<waf_policy(id_w1, ser)>>) :
                      ser \in {serialized_of(id_w1, sets) : sets \in RuleSetLists(MaxNodes)}
                              \cup GapSerialized(id_w1)}

\* one gateway against one policy with one rule of any text
IdChars == {"0", "1", "2", "-", "_", " ", "x"}

RuleStates == {s_disabled, s_Disabled, s_DISABLED, s_enabled, s_Enabled, <<>>}

RuleIds == SeqsUpTo(IdChars, MaxIdLen) \cup {s_944240}

TextRules ==
    {override_rule_of(i, s) : <<i, s>> \in RuleIds \X RuleStates}
    \cup {[ruleId |-> i] : i \in RuleIds}
    \cup {[state |-> s] : s \in RuleStates}

TextInputs ==
    /\ data \in {data_of(n, s_disabled) : n \in {1, 12, 944240}}
    /\ resources = <<gw_B>>
    /\ backend \in {list_all_of(FALSE,
                       <<waf_policy(id_w1,
                                    serialized_of(id_w1, <<rule_set_of(<<group_of(<<r>>)>>)>>))>>) :
                      r \in TextRules}

Inputs == BatchInputs \/ FailingInputs \/ InvalidInputs \/ ShapeInputs \/ TextInputs

----------------------------------------------------------------------------
(* The run.                                                                *)

Init ==
    /\ Inputs
    /\ pc = "validate"
    /\ app_gate_wafs = <<>>
    /\ result = <<>>
    /\ idx = 0
    /\ list_all_calls = 0
    /\ raised = "None"
    /\ returned = <<>>

\* the policy is validated when it is loaded; an invalid filter never runs
Validate ==
    /\ pc = "validate"
    /\ IF validate(data)
       THEN pc' = "process" /\ raised' = raised
       ELSE pc' = "rejected" /\ raised' = "ValidationError"
    /\ UNCHANGED <<data, resources, backend, app_gate_wafs, result, idx,
                   list_all_calls, returned>>

\* a failing list_all() taken as 'no policies'
ListAllSwallow ==
    /\ pc = "process"
    /\ list_all_calls' = list_all_calls + 1
    /\ pc' = "loop"
    /\ app_gate_wafs' = (IF backend.fails THEN <<>> ELSE backend.policies)
    /\ result' = <<>>
    /\ UNCHANGED <<data, resources, backend, idx, raised, returned>>

\* client = self.manager.get_client()
\* app_gate_wafs = list(client.web_application_firewall_policies.list_all())
\* result = []
ListAll ==
    /\ pc = "process"
    /\ list_all_calls' = list_all_calls + 1
    /\ IF backend.fails
       THEN /\ pc' = "raised"
            /\ raised' = "BackendError"
            /\ UNCHANGED <<app_gate_wafs, result>>
       ELSE /\ pc' = "loop"
            /\ app_gate_wafs' = backend.policies
            /\ result' = <<>>
            /\ raised' = raised
    /\ UNCHANGED <<data, resources, backend, idx, returned>>

\* list_all() called inside the loop, once per resource
NextResourceRefetch ==
    /\ pc = "loop"
    /\ idx < Len(resources)
    /\ list_all_calls' = list_all_calls + 1
    /\ LET acc == resource_step(resources[idx + 1], app_gate_wafs, data,
                                [result |-> result, exc |-> "None"])
       IN  /\ result' = acc.result
           /\ IF acc.exc = "None"
              THEN idx' = idx + 1 /\ pc' = pc /\ raised' = raised
              ELSE idx' = idx /\ pc' = "raised" /\ raised' = acc.exc
    /\ UNCHANGED <<data, resources, backend, app_gate_wafs, returned>>

\* one pass of 'for resource in resources'
NextResource ==
    /\ pc = "loop"
    /\ idx < Len(resources)
    /\ LET acc == resource_step(resources[idx + 1], app_gate_wafs, data,
                                [result |-> result, exc |-> "None"])
       IN  /\ result' = acc.result
           /\ IF acc.exc = "None"
              THEN idx' = idx + 1 /\ pc' = pc /\ raised' = raised
              ELSE idx' = idx /\ pc' = "raised" /\ raised' = acc.exc
    /\ UNCHANGED <<data, resources, backend, app_gate_wafs, list_all_calls, returned>>

\* return result
Return ==
    /\ pc = "loop"
    /\ idx = Len(resources)
    /\ pc' = "done"
    /\ returned' = <<result>>
    /\ UNCHANGED <<data, resources, backend, app_gate_wafs, result, idx,
                   list_all_calls, raised>>

Next == Validate \/ ListAll \/ NextResource \/ Return

Spec == Init /\ [][Next]_vars

----------------------------------------------------------------------------
(* Properties.                                                             *)

InResult(resource) == \E k \in 1..Len(result) : result[k] = resource

HasPolicyRef(resource) == Has(resource.properties, "firewallPolicy")

PolicyRef(resource) == resource.properties.firewallPolicy.id

\* the fetched policies whose id is the one the resource references
Referenced(resource) ==
    {p \in 1..Len(app_gate_wafs) : app_gate_wafs[p].id = PolicyRef(resource)}

\* the rule's id, read as a number, is the filter's override_rule and its
\* state is the filter's state up to letter case
MatchesFilter(rule) ==
    /\ Has(rule, "ruleId") /\ Has(rule, "state")
    /\ int_valid(rule.ruleId)
    /\ int(rule.ruleId) = data.override_rule
    /\ lower(rule.state) = lower(data.state)

RuleSetsOf(p) == app_gate_wafs[p].serialized.properties.managedRules.managedRuleSets

\* some rule of some group of some rule set of policy p matches the filter
SomeRuleMatches(p) ==
    \E s \in 1..Len(RuleSetsOf(p)) :
        /\ Has(RuleSetsOf(p)[s], "ruleGroupOverrides")
        /\ \E g \in 1..Len(RuleSetsOf(p)[s].ruleGroupOverrides) :
              /\ Has(RuleSetsOf(p)[s].ruleGroupOverrides[g], "rules")
              /\ \E r \in 1..Len(RuleSetsOf(p)[s].ruleGroupOverrides[g].rules) :
                    MatchesFilter(RuleSetsOf(p)[s].ruleGroupOverrides[g].rules[r])

\* C1: a resource whose properties has no firewallPolicy key is never in
\* the list process() builds and returns, whatever the policies and filter.
C1_NoPolicyRefExcluded ==
    /\ \A k \in 1..Len(resources) :
          ~HasPolicyRef(resources[k]) => ~InResult(resources[k])
    /\ \A k \in 1..Len(result) : HasPolicyRef(result[k])

\* a run returned a non-empty result although a gateway without a
\* firewall policy was among its resources
C1_Witness ==
    /\ pc = "done"
    /\ returned = <<result>>
    /\ result /= <<>>
    /\ \E k \in 1..Len(resources) : ~HasPolicyRef(resources[k])

\* C2: a resource with a firewallPolicy reference is not in the result when
\* no fetched policy has an id equal to the referenced id, whatever rules
\* the fetched policies hold.
C2_UnknownPolicyExcluded ==
    pc \in {"loop", "done", "raised"} =>
        \A k \in 1..Len(resources) :
            (HasPolicyRef(resources[k]) /\ Referenced(resources[k]) = {})
                => ~InResult(resources[k])

\* a run returned without gateway C, whose reference differs from the id
\* of a fetched policy only in letter case, that policy holding the rule
\* disabled
C2_Witness ==
    /\ pc = "done"
    /\ \E k \in 1..Len(resources) : resources[k] = gw_C
    /\ ~InResult(gw_C)
    /\ app_gate_wafs /= <<>>
    /\ \A p \in 1..Len(app_gate_wafs) :
          /\ app_gate_wafs[p].id = id_w1
          /\ SomeRuleMatches(p)

\* the single gateway, policy, rule set, group and rule of a run
OnlyRule ==
    app_gate_wafs[1].serialized.properties.managedRules.managedRuleSets[1]
        .ruleGroupOverrides[1].rules[1]

OneRuleRun ==
    /\ Len(resources) = 1 /\ HasPolicyRef(resources[1])
    /\ Len(app_gate_wafs) = 1 /\ Referenced(resources[1]) = {1}
    /\ Has(app_gate_wafs[1].serialized, "properties")
    /\ Has(app_gate_wafs[1].serialized.properties, "managedRules")
    /\ Has(app_gate_wafs[1].serialized.properties.managedRules, "managedRuleSets")
    /\ Len(RuleSetsOf(1)) = 1
    /\ Has(RuleSetsOf(1)[1], "ruleGroupOverrides")
    /\ Len(RuleSetsOf(1)[1].ruleGroupOverrides) = 1
    /\ Has(RuleSetsOf(1)[1].ruleGroupOverrides[1], "rules")
    /\ Len(RuleSetsOf(1)[1].ruleGroupOverrides[1].rules) = 1

\* C3: a rule matches exactly when its ruleId, read as an integer, equals
\* override_rule and its state equals the filter's state ignoring letter
\* case: ruleId "944240" with state "Disabled" matches override_rule 944240
\* and state "disabled"; the same id with state "enabled", or the state
\* with another id, does not.
C3_RuleMatch ==
    (pc = "done" /\ OneRuleRun) =>
        /\ (result = <<resources[1]>>) <=> MatchesFilter(OnlyRule)
        /\ (result = <<>>) <=> ~MatchesFilter(OnlyRule)
        /\ (data.override_rule = 944240 /\ OnlyRule = override_rule_of(s_944240, s_Disabled))
              => result = <<resources[1]>>
        /\ (data.override_rule = 944240 /\ OnlyRule = override_rule_of(s_944240, s_enabled))
              => result = <<>>
        /\ (data.override_rule = 944240 /\ Has(OnlyRule, "ruleId")
                /\ OnlyRule.ruleId \in {<<"1">>, <<"1", "2">>})
              => result = <<>>
        /\ (data.override_rule = 12 /\ Has(OnlyRule, "state")
                /\ Has(OnlyRule, "ruleId") /\ OnlyRule.ruleId \in {<<"1", "2">>, <<" ", "1", "2">>})
              => (result = <<resources[1]>> <=>
                     OnlyRule.state \in {s_disabled, s_Disabled, s_DISABLED})

\* a run accepted the gateway on a rule whose state is written "Disabled"
C3_Witness ==
    /\ pc = "done" /\ OneRuleRun
    /\ OnlyRule = override_rule_of(s_944240, s_Disabled)
    /\ result = <<resources[1]>>

\* C4: when process() returns, a resource with a firewallPolicy reference
\* is in the result if and only if some rule, anywhere in the rule sets and
\* groups of a fetched policy with the referenced id, matches the filter;
\* gateways A (no policy), B (rule 944240 disabled) and C (rule 944240
\* enabled) give exactly [B].
C4_IncludedIffSomeRuleMatches ==
    pc = "done" =>
        /\ \A k \in 1..Len(resources) :
              HasPolicyRef(resources[k]) =>
                  (InResult(resources[k]) <=>
                      \E p \in Referenced(resources[k]) : SomeRuleMatches(p))
        /\ ( /\ resources = <<gw_A, gw_B, gw_C>>
             /\ app_gate_wafs =
                  <<waf_policy(id_w1, serialized_of(id_w1,
                        <<rule_set_of(<<group_of(<<override_rule_of(s_944240, s_disabled)>>)>>)>>)),
                    waf_policy(id_W1, serialized_of(id_W1,
                        <<rule_set_of(<<group_of(<<override_rule_of(s_944240, s_enabled)>>)>>)>>))>>
           ) => returned = <<<<gw_B>>>>

\* a run accepted the gateway on a rule that sits in the second rule set,
\* the first rule set holding only a rule that does not match
C4_Witness ==
    /\ pc = "done"
    /\ resources = <<gw_B>>
    /\ InResult(gw_B)
    /\ Len(app_gate_wafs) = 1
    /\ Len(RuleSetsOf(1)) = 2
    /\ RuleSetsOf(1)[1].ruleGroupOverrides = <<group_of(<<override_rule_of(s_944240, s_enabled)>>)>>
    /\ RuleSetsOf(1)[2].ruleGroupOverrides = <<group_of(<<override_rule_of(s_944240, s_disabled)>>)>>

\* C5: a gap in the traversal (no matching policy, no managedRules, no
\* managedRuleSets, no ruleGroupOverrides, no rules, a rule without a
\* field) never raises: the run is never ended by a TypeError or an
\* AttributeError.
C5_GapNeverRaises ==
    ~(pc = "raised" /\ raised \in {"TypeError", "AttributeError"})

\* C6: list_all() is invoked at most once in a run, and it has been invoked
\* before the first resource is looked at, however many resources there are.
C6_ListAllOnce ==
    /\ list_all_calls <= 1
    /\ pc \in {"validate", "process", "rejected"} => list_all_calls = 0 /\ idx = 0
    /\ pc \in {"loop", "done"} => list_all_calls = 1

\* a run returned after looking at three resources, two of them with a
\* firewall policy, on one call of list_all()
C6_Witness ==
    /\ pc = "done"
    /\ idx = 3
    /\ Cardinality({k \in 1..Len(resources) : HasPolicyRef(resources[k])}) >= 2
    /\ list_all_calls = 1

\* C7: a filter without override_rule, without state, or with a state other
\* than "disabled" is rejected by validation, before list_all() is invoked
\* and before any resource is looked at.
C7_InvalidFilterRejected ==
    (pc /= "validate" /\ (~Has(data, "override_rule") \/ ~Has(data, "state")
                             \/ data.state /= s_disabled)) =>
        /\ pc = "rejected"
        /\ raised = "ValidationError"
        /\ list_all_calls = 0
        /\ idx = 0
        /\ result = <<>>
        /\ returned = <<>>

\* a filter with state "enabled" was rejected with resources waiting
C7_Witness ==
    /\ pc = "rejected"
    /\ Has(data, "state") /\ data.state = s_enabled
    /\ resources /= <<>>

\* where a resource stands in the input
PositionOf(resource) == CHOOSE k \in 1..Len(resources) : resources[k] = resource

\* C8: the result keeps the order of the input: of two resources in the
\* result, the one that comes first in the input comes first in the result.
C8_OrderPreserved ==
    \A p, q \in 1..Len(result) :
        p < q => PositionOf(result[p]) <= PositionOf(result[q])

\* a run returned two different resources
C8_Witness ==
    /\ pc = "done"
    /\ \E p, q \in 1..Len(result) : result[p] /= result[q]

\* C9: every input resource is in the result at most once, also when
\* several rules of its policy match or several fetched policies have the
\* referenced id.
C9_AtMostOnce ==
    \A p, q \in 1..Len(result) : p /= q => result[p] /= result[q]

\* C10: when list_all() fails the run ends with that error: the call is
\* made once, no resource is looked at and nothing is returned.
C10_ListAllFailureAborts ==
    (backend.fails /\ pc \notin {"validate", "process", "rejected"}) =>
        /\ pc = "raised"
        /\ raised = "BackendError"
        /\ list_all_calls = 1
        /\ idx = 0
        /\ result = <<>>
        /\ returned = <<>>

\* list_all() failed with resources waiting
C10_Witness ==
    /\ pc = "raised"
    /\ backend.fails
    /\ raised = "BackendError"
    /\ Len(resources) >= 2

====
